---- MODULE Spec2Model ----
(***************************************************************************)
(* ColaStream signaling bridge (bridge/signaling-bridge.js).               *)
(*                                                                         *)
(* One node process runs main(): it constructs a SignalingBridge, installs *)
(* a SIGINT handler and awaits bridge.start().  start() fetches the TURN   *)
(* credential list once, creates the VDO.Ninja SDK session, registers the  *)
(* dataReceived / peerConnected / peerDisconnected handlers, then connects *)
(* and announces.  Every whip/whep data message is proxied to MediaMTX by  *)
(* one HTTP POST whose result is relayed back to the sending peer.         *)
(*                                                                         *)
(* JavaScript is single threaded: every action below is one run-to-        *)
(* completion turn of the event loop (a handler up to its next await on an *)
(* external promise, or the continuation after such a promise settles).    *)
(* The SDK, MediaMTX and the credential service are the environment: their *)
(* answers are chosen with \E from small sets.                             *)
(***************************************************************************)
EXTENDS Integers, Sequences, FiniteSets, Bags, TLC

VARIABLES
    pc,              \* where main()/start() stands: "fetchTurn", "connect", "announce", "ready", "exited"
    exitCode,        \* process exit status once pc = "exited", else NotExited
    sdk,             \* this.sdk: NullRef or SdkRef
    session,         \* state of the SDK object: "none", "created", "connected", "announced", "closed"
    iceServers,      \* this.iceServers: IceNull or [list |-> sequence of entries]
    connectedPeers,  \* this.connectedPeers: a Set of UUIDs, as the sequence of its entries
    nodeFetch,       \* whether import('node-fetch') resolves in this installation
    pending,         \* bag of whip/whep negotiations awaiting the MediaMTX response
    last,            \* history: the last handler turn, the sendData calls and POSTs it made
    discovery,       \* history: what the credential service answered
    lastNotif,       \* history: per peer, the most recent connect / disconnect notification
    ready,           \* history: "BRIDGE READY" was printed and start() returned the room id
    host,            \* who drives the bridge: "main" (the script's main()) or "api" (a caller of the exported class)
    turnFetch,       \* the credential request in flight: "timed" (the timeout option is honoured), "untimed", or "done"
    stopped          \* history: stop() has been called

vars == <<pc, exitCode, sdk, session, iceServers, connectedPeers, nodeFetch,
          pending, last, discovery, lastNotif, ready, host, turnFetch, stopped>>

(***************************************************************************)
(* Bounds of the model.                                                    *)
(***************************************************************************)
\* Largest number of negotiations in flight at the same time.
MaxPending == 2

\* Calls of sdk.disconnect() the model follows.
MaxDisconnects == 2

(***************************************************************************)
(* JavaScript values.  Strings are TLA+ strings; the value undefined of a  *)
(* scalar property is the token Undefined.  A parsed message is a tagged   *)
(* value: an object with its properties, or null / undefined / a number.   *)
(***************************************************************************)
Undefined == "<undefined>"

JSNull == [kind |-> "null"]

JSUndefined == [kind |-> "undefined"]

JSNumber == [kind |-> "number"]

JSObject(fields) == [kind |-> "object", fields |-> fields]

\* v.name in JavaScript, for a value on which the property read does not throw.
GetProp(v, name) ==
    IF v.kind = "object" /\ name \in DOMAIN v.fields THEN v.fields[name] ELSE Undefined

\* A property read on null or undefined throws a TypeError.
PropReadThrows(v) == v.kind \in {"null", "undefined"}

\* JavaScript truthiness of a string-or-undefined value (`if (uuid)`, `streamPath || 'live'`).
Truthy(s) == s \notin {Undefined, ""}

NullRef == "null"

SdkRef == "VDONinjaSDK"

NotExited == -1

IceNull == [null |-> TRUE]

mediaServerUrl == "http://localhost:8889"

FallbackIceServers == <<[urls |-> "stun:stun.l.google.com:19302"]>>

(***************************************************************************)
(* The environment's alphabet.                                             *)
(***************************************************************************)
Peers == {"peer-A", "peer-B"}

\* Message objects peers send.
WhepFull == [type |-> "whep", streamPath |-> "cam", sdp |-> "offer-2", requestId |-> "r2"]

WhipBare == [type |-> "whip", sdp |-> "offer-1"]

WhepEmptyPath == [type |-> "whep", streamPath |-> "", sdp |-> "offer-2", requestId |-> "r2"]

PingMsg == [type |-> "ping"]

StatsMsg == [type |-> "stats", requestId |-> "r1"]

NoTypeMsg == [sdp |-> "offer-1", requestId |-> "r1"]

\* The same kinds of message as JSON text, and texts that are not messages.
TextWhep == "{\"type\":\"whep\",\"streamPath\":\"cam\",\"sdp\":\"offer-2\",\"requestId\":\"r2\"}"

TextPing == "{\"type\":\"ping\"}"

TextNull == "null"

TextNumber == "42"

TextTruncated == "{\"type\":\"ping\""

Texts == {TextWhep, TextPing, TextNull, TextNumber, TextTruncated}

\* Mutant: a lenient parser that repairs the truncated text instead of throwing.
JSONParseLenient(text) ==
    CASE text = TextWhep   -> [ok |-> TRUE, value |-> JSObject(WhepFull)]
      [] text = TextPing   -> [ok |-> TRUE, value |-> JSObject(PingMsg)]
      [] text = TextNull   -> [ok |-> TRUE, value |-> JSNull]
      [] text = TextNumber -> [ok |-> TRUE, value |-> JSNumber]
      [] text = TextTruncated -> [ok |-> TRUE, value |-> JSObject(PingMsg)]

\* JSON.parse on the texts above: the parsed value, or a SyntaxError.
JSONParse(text) ==
    CASE text = TextWhep   -> [ok |-> TRUE, value |-> JSObject(WhepFull)]
      [] text = TextPing   -> [ok |-> TRUE, value |-> JSObject(PingMsg)]
      [] text = TextNull   -> [ok |-> TRUE, value |-> JSNull]
      [] text = TextNumber -> [ok |-> TRUE, value |-> JSNumber]
      [] text = TextTruncated -> [ok |-> FALSE, value |-> JSUndefined]

StringData(text) == [isString |-> TRUE, text |-> text, value |-> JSUndefined]

StructuredData(v) == [isString |-> FALSE, text |-> "", value |-> v]

\* The `data` of a dataReceived event: a string, or an already structured value.
Payloads ==
    {StringData(t) : t \in Texts} \cup
    {StructuredData(v) : v \in {JSObject(WhipBare), JSObject(WhepEmptyPath),
                                JSObject(StatsMsg), JSObject(NoTypeMsg), JSUndefined}}

NoData == StructuredData(JSUndefined)

\* What the credential service can answer with.
TurnA == [urls |-> "turn:a.example:3478", username |-> "user-a", credential |-> "pw-a", region |-> "eu"]

StunB == [urls |-> "stun:b.example:3478"]

DiscoveryOutcomes ==
    { [kind |-> "rejected", hasServers |-> FALSE, servers |-> <<>>],    \* network error or timeout
      [kind |-> "badJson",  hasServers |-> FALSE, servers |-> <<>>],    \* response.json() rejects
      [kind |-> "json",     hasServers |-> FALSE, servers |-> <<>>],    \* JSON without a servers array
      [kind |-> "json",     hasServers |-> TRUE,  servers |-> <<>>],
      [kind |-> "json",     hasServers |-> TRUE,  servers |-> <<TurnA, StunB>>] }

\* What MediaMTX can answer to a POST.
LongBody == "<error body of more than 100 characters>"

LongBodyHead == "<its first 100 characters>"

UpstreamOutcomes ==
    { [kind |-> "rejected", status |-> 0,   body |-> "",               readable |-> FALSE],
      [kind |-> "response", status |-> 201, body |-> "answer-sdp",     readable |-> TRUE],
      [kind |-> "response", status |-> 200, body |-> "",               readable |-> FALSE],
      [kind |-> "response", status |-> 404, body |-> "no such stream", readable |-> TRUE],
      [kind |-> "response", status |-> 500, body |-> LongBody,         readable |-> TRUE] }

(***************************************************************************)
(* Pure functions of the bridge.                                           *)
(***************************************************************************)
\* Mutant: the mapped list misses the last server of the response.
MapServersDroppingLast(servers) ==
    [i \in 1..(Len(servers) - 1) |->
        [urls       |-> IF "urls" \in DOMAIN servers[i] THEN servers[i].urls ELSE Undefined,
         username   |-> IF "username" \in DOMAIN servers[i] THEN servers[i].username ELSE Undefined,
         credential |-> IF "credential" \in DOMAIN servers[i] THEN servers[i].credential ELSE Undefined]]

\* One element of data.servers.map(s => ({urls, username, credential})).
MapServer(s) ==
    [urls       |-> IF "urls" \in DOMAIN s THEN s.urls ELSE Undefined,
     username   |-> IF "username" \in DOMAIN s THEN s.username ELSE Undefined,
     credential |-> IF "credential" \in DOMAIN s THEN s.credential ELSE Undefined]

MapServers(servers) == [i \in 1..Len(servers) |-> MapServer(servers[i])]

\* Mutant: fetchTurnServers whose catch block assigns no fallback.
FetchedIceServersNoFallback(outcome) ==
    IF nodeFetch /\ outcome.kind = "json" /\ outcome.hasServers
    THEN [list |-> [i \in 1..Len(outcome.servers) |->
                      [urls       |-> IF "urls" \in DOMAIN outcome.servers[i]
                                      THEN outcome.servers[i].urls ELSE Undefined,
                       username   |-> IF "username" \in DOMAIN outcome.servers[i]
                                      THEN outcome.servers[i].username ELSE Undefined,
                       credential |-> IF "credential" \in DOMAIN outcome.servers[i]
                                      THEN outcome.servers[i].credential ELSE Undefined]]]
    ELSE IceNull

\* The value fetchTurnServers leaves in this.iceServers: the mapped list when the
\* import, the fetch, response.json() and data.servers.map all succeed, else the
\* fallback assigned in the catch block.
FetchedIceServers(outcome) ==
    IF nodeFetch /\ outcome.kind = "json" /\ outcome.hasServers
    THEN [list |-> MapServers(outcome.servers)]
    ELSE [list |-> FallbackIceServers]

DiscoverySucceeded(outcome) == nodeFetch /\ outcome.kind = "json" /\ outcome.hasServers

\* JSON.stringify of one credential entry: properties whose value is undefined are left out.
StringifyServer(e) == [k \in {f \in DOMAIN e : e[f] # Undefined} |-> e[k]]

StringifyIce(ice) ==
    IF ice = IceNull THEN IceNull
    ELSE [list |-> [i \in 1..Len(ice.list) |-> StringifyServer(ice.list[i])]]

\* JSON.stringify of an outbound message, written as the members of the JSON text:
\* scalar properties whose value is undefined are left out.
JSONStringify(data) ==
    [k \in {f \in DOMAIN data : f = "iceServers" \/ data[f] # Undefined} |->
        IF k = "iceServers" THEN StringifyIce(data[k]) ELSE data[k]]

\* typeof data === 'string' ? JSON.parse(data) : data
ParseData(data) ==
    IF data.isString THEN JSONParse(data.text) ELSE [ok |-> TRUE, value |-> data.value]

\* Mutant: handleMessage whose final else branch answers like the ping branch.
DispatchAnsweringUnknown(data) ==
    LET parsed == ParseData(data) IN
    IF ~parsed.ok THEN "invalid"
    ELSE IF PropReadThrows(parsed.value) THEN "typeError"
    ELSE LET type == GetProp(parsed.value, "type") IN
         IF type \in {"whip", "whep"} THEN "signaling" ELSE "ping"

\* The branch handleMessage takes for a payload.
Dispatch(data) ==
    LET parsed == ParseData(data) IN
    IF ~parsed.ok THEN "invalid"
    ELSE IF PropReadThrows(parsed.value) THEN "typeError"
    ELSE LET type == GetProp(parsed.value, "type") IN
         IF type \in {"whip", "whep"} THEN "signaling"
         ELSE IF type = "ping" THEN "ping"
         ELSE "unknown"

\* const { type, streamPath, sdp, requestId } = message
Destructure(message) ==
    [type      |-> GetProp(message, "type"),
     streamPath |-> GetProp(message, "streamPath"),
     sdp       |-> GetProp(message, "sdp"),
     requestId |-> GetProp(message, "requestId")]

\* Mutant: every request is posted to the whep endpoint.
EndpointAlwaysWhep(type) == "whep"

\* const endpoint = type === 'whip' ? 'whip' : 'whep'
Endpoint(type) == IF type = "whip" THEN "whip" ELSE "whep"

StreamPathOrLive(streamPath) == IF Truthy(streamPath) THEN streamPath ELSE "live"

\* `${this.mediaServerUrl}/${streamPath || 'live'}/${endpoint}`
TargetUrl(m) == mediaServerUrl \o "/" \o StreamPathOrLive(m.streamPath) \o "/" \o Endpoint(m.type)

\* The fetch(url, {method, headers, body}) call of handleSignaling.
PostRequest(m) ==
    [url |-> TargetUrl(m), method |-> "POST", contentType |-> "application/sdp", body |-> m.sdp]

\* response.ok
ResponseOk(outcome) == outcome.kind = "response" /\ outcome.status \in 200..299

\* text.substring(0, 100)
Substring100(text) == IF text = LongBody THEN LongBodyHead ELSE text

ImportErrorMessage == "Cannot find package 'node-fetch'"

FetchErrorMessage == "request to MediaMTX failed"

BodyErrorMessage == "could not read the response body"

HttpErrorMessage(status, text) ==
    "MediaMTX " \o ToString(status) \o ": " \o Substring100(text)

\* Mutant: the answer carries the default STUN entry instead of the cached list.
AnswerMessageDefaultIce(req, answerSdp) ==
    [type |-> req.type \o "-answer", requestId |-> req.requestId, sdp |-> answerSdp,
     iceServers |-> [list |-> FallbackIceServers]]

AnswerMessage(req, answerSdp) ==
    [type |-> req.type \o "-answer", requestId |-> req.requestId, sdp |-> answerSdp,
     iceServers |-> iceServers]

ErrorMessage(req, message) ==
    [type |-> "error", requestId |-> req.requestId, error |-> message]

PongMessage == [type |-> "pong"]

\* Mutant: handleSignaling without the `if (!response.ok)` check.
SignalingReplyIgnoringStatus(req, outcome) ==
    IF outcome.kind = "rejected" THEN ErrorMessage(req, FetchErrorMessage)
    ELSE IF outcome.readable
         THEN AnswerMessage(req, outcome.body)
         ELSE ErrorMessage(req, BodyErrorMessage)

\* The message handleSignaling passes to sendToClient once the POST has settled:
\* the answer from the try block, or the error from the catch block.
SignalingReply(req, outcome) ==
    IF outcome.kind = "rejected" THEN ErrorMessage(req, FetchErrorMessage)
    ELSE IF ~ResponseOk(outcome)
         THEN IF outcome.readable
              THEN ErrorMessage(req, HttpErrorMessage(outcome.status, outcome.body))
              ELSE ErrorMessage(req, BodyErrorMessage)
         ELSE IF outcome.readable
              THEN AnswerMessage(req, outcome.body)
              ELSE ErrorMessage(req, BodyErrorMessage)

\* Whether the negotiation ended in the catch block.
NegotiationFailed(outcome) == ~(ResponseOk(outcome) /\ outcome.readable)

\* sdk.sendData either returns or throws.
SendOutcomes == BOOLEAN

\* Mutant: sendData called without the target option.
sendToClientNoTarget(clientUUID, data, throws) ==
    IF sdk # NullRef
    THEN <<[target |-> Undefined, payload |-> JSONStringify(data), threw |-> throws]>>
    ELSE <<>>

\* Mutant: only peers of the registry are sent to.
sendToClientConnectedOnly(clientUUID, data, throws) ==
    IF sdk # NullRef /\ (\E i \in 1..Len(connectedPeers) : connectedPeers[i] = clientUUID)
    THEN <<[target |-> clientUUID, payload |-> JSONStringify(data), threw |-> throws]>>
    ELSE <<>>

\* Mutant: a sendData call that threw is made a second time.
sendToClientRetrying(clientUUID, data, throws) ==
    IF sdk # NullRef
    THEN IF throws
         THEN <<[target |-> clientUUID, payload |-> JSONStringify(data), threw |-> TRUE],
                [target |-> clientUUID, payload |-> JSONStringify(data), threw |-> FALSE]>>
         ELSE <<[target |-> clientUUID, payload |-> JSONStringify(data), threw |-> FALSE]>>
    ELSE <<>>

\* sendToClient: the sdk.sendData calls it makes (none without an sdk); an
\* exception of sendData is caught and logged.
sendToClient(clientUUID, data, throws) ==
    IF sdk # NullRef
    THEN <<[target |-> clientUUID, payload |-> JSONStringify(data), threw |-> throws]>>
    ELSE <<>>

\* The closure a pending negotiation keeps: clientUUID, type and requestId.
Negotiation(m, clientUUID) == [peer |-> clientUUID, type |-> m.type, requestId |-> m.requestId]

NoReq == [peer |-> "", type |-> "", requestId |-> Undefined]

NoOutcome == [kind |-> "none", status |-> 0, body |-> "", readable |-> FALSE]

Turn(op, peer, data, req, outcome, sent, posts) ==
    [op |-> op, peer |-> peer, data |-> data, req |-> req, outcome |-> outcome,
     sent |-> sent, posts |-> posts]

\* The stop() history before any call: whether stop() was called, how many calls
\* of sdk.disconnect() it made, whether a call returned while start() was in progress.
NeverStopped == [called |-> FALSE, disconnects |-> 0, duringStart |-> FALSE]

(***************************************************************************)
(* Initial state: main() has constructed the bridge, installed the SIGINT  *)
(* handler and called start(), which is awaiting fetchTurnServers().       *)
(***************************************************************************)
Init ==
    /\ pc = "fetchTurn"
    /\ exitCode = NotExited
    /\ sdk = NullRef
    /\ session = "none"
    /\ iceServers = IceNull
    /\ connectedPeers = <<>>
    /\ nodeFetch \in BOOLEAN
    /\ pending = EmptyBag
    /\ last = Turn("main", "", NoData, NoReq, NoOutcome, <<>>, <<>>)
    /\ discovery = [state |-> "pending", servers |-> <<>>, fetches |-> 0]
    /\ lastNotif = [p \in Peers |-> "none"]
    /\ ready = FALSE
    /\ host = "main"
    /\ turnFetch \in {"timed", "untimed"}
    /\ stopped = NeverStopped

\* The process is running and the SDK session delivers events.
Delivering == pc \in {"announce", "ready"}

(***************************************************************************)
(* start(): fetchTurnServers settles; start() then creates the SDK,        *)
(* registers the three handlers and calls sdk.connect().                   *)
(***************************************************************************)
fetchTurnServers(outcome) ==
    /\ pc = "fetchTurn"
    /\ iceServers' = FetchedIceServers(outcome)
    /\ discovery' = IF DiscoverySucceeded(outcome)
                    THEN [state |-> "fetched", servers |-> outcome.servers, fetches |-> 1]
                    ELSE [state |-> "failed", servers |-> <<>>,
                          fetches |-> IF nodeFetch THEN 1 ELSE 0]
    /\ turnFetch' = "done"
    /\ sdk' = SdkRef
    /\ session' = "created"
    /\ pc' = "connect"
    /\ last' = Turn("fetchTurnServers", "", NoData, NoReq, NoOutcome, <<>>, <<>>)
    /\ UNCHANGED <<exitCode, connectedPeers, nodeFetch, host, stopped, pending, lastNotif, ready>>

\* Mutant: start() logs the rejection and carries on as if the session were up.
StartRejectedSwallowed(step) ==
    /\ pc' = "ready"
    /\ ready' = TRUE
    /\ last' = Turn(step, "", NoData, NoReq, NoOutcome, <<>>, <<>>)
    /\ UNCHANGED <<exitCode, sdk, session, iceServers, connectedPeers, nodeFetch, host, turnFetch, stopped, pending,
                   discovery, lastNotif>>

\* A rejection of connect() or announce(): start() logs and rethrows.  main()'s
\* catch block calls process.exit(1); another caller gets the rejected promise.
StartRejected(step) ==
    /\ IF host = "main"
       THEN pc' = "exited" /\ exitCode' = 1
       ELSE pc' = "startRejected" /\ UNCHANGED exitCode
    /\ last' = Turn(step, "", NoData, NoReq, NoOutcome, <<>>, <<>>)
    /\ UNCHANGED <<sdk, session, iceServers, connectedPeers, nodeFetch, host, turnFetch, stopped, pending,
                   discovery, lastNotif, ready>>

\* await this.sdk.connect() resolves; start() calls this.sdk.announce().  When
\* stop() has set this.sdk to null in the meantime the call throws a TypeError
\* inside the try block: start() logs and rethrows.
ConnectResolved ==
    /\ pc = "connect"
    /\ IF sdk = NullRef
       THEN StartRejected("announceThrew")
       ELSE /\ session' = "connected"
            /\ pc' = "announce"
            /\ last' = Turn("connect", "", NoData, NoReq, NoOutcome, <<>>, <<>>)
            /\ UNCHANGED <<exitCode, sdk, iceServers, connectedPeers, nodeFetch, host, turnFetch,
                           stopped, pending, discovery, lastNotif, ready>>

ConnectRejected ==
    /\ pc = "connect"
    /\ StartRejected("connectFailed")

\* await this.sdk.announce(...) resolves; start() prints BRIDGE READY and returns roomId.
AnnounceResolved ==
    /\ pc = "announce"
    /\ session' = (IF sdk = NullRef THEN session ELSE "announced")
    /\ pc' = "ready"
    /\ ready' = TRUE
    /\ last' = Turn("announce", "", NoData, NoReq, NoOutcome, <<>>, <<>>)
    /\ UNCHANGED <<exitCode, sdk, iceServers, connectedPeers, nodeFetch, host, turnFetch, stopped, pending,
                   discovery, lastNotif>>

AnnounceRejected ==
    /\ pc = "announce"
    /\ StartRejected("announceFailed")

(***************************************************************************)
(* Peer observers.                                                         *)
(***************************************************************************)
\* A JavaScript Set keeps its entries in insertion order, each value once.
Entries(registry) == {registry[i] : i \in 1..Len(registry)}

\* Set.prototype.add
SetAdd(registry, value) ==
    IF value \in Entries(registry) THEN registry ELSE Append(registry, value)

\* Set.prototype.delete
SetDelete(registry, value) == SelectSeq(registry, LAMBDA e : e # value)

\* Mutant: the registry kept as an array, connect pushes.
AfterPeerConnectedPush(registry, uuid) ==
    IF Truthy(uuid) THEN Append(registry, uuid) ELSE registry

\* if (uuid) this.connectedPeers.add(uuid)
AfterPeerConnected(registry, uuid) ==
    IF Truthy(uuid) THEN SetAdd(registry, uuid) ELSE registry

\* if (uuid) this.connectedPeers.delete(uuid)
AfterPeerDisconnected(registry, uuid) ==
    IF Truthy(uuid) THEN SetDelete(registry, uuid) ELSE registry

Notified(uuid, what) == [p \in Peers |-> IF p = uuid THEN what ELSE lastNotif[p]]

PeerConnected(uuid) ==
    /\ Delivering
    /\ connectedPeers' = AfterPeerConnected(connectedPeers, uuid)
    /\ lastNotif' = Notified(uuid, "connect")
    /\ last' = Turn("peerConnected", uuid, NoData, NoReq, NoOutcome, <<>>, <<>>)
    /\ UNCHANGED <<pc, exitCode, sdk, session, iceServers, nodeFetch, host, turnFetch, stopped, pending,
                   discovery, ready>>

PeerDisconnected(uuid) ==
    /\ Delivering
    /\ connectedPeers' = AfterPeerDisconnected(connectedPeers, uuid)
    /\ lastNotif' = Notified(uuid, "disconnect")
    /\ last' = Turn("peerDisconnected", uuid, NoData, NoReq, NoOutcome, <<>>, <<>>)
    /\ UNCHANGED <<pc, exitCode, sdk, session, iceServers, nodeFetch, host, turnFetch, stopped, pending,
                   discovery, ready>>

(***************************************************************************)
(* dataReceived -> handleMessage.                                          *)
(***************************************************************************)
\* JSON.parse threw, or the type is none of whip, whep, ping: logged, nothing else.
DataDropped(peer, data) ==
    /\ Dispatch(data) \in {"invalid", "unknown"}
    /\ last' = Turn("data", peer, data, NoReq, NoOutcome, <<>>, <<>>)
    /\ UNCHANGED <<pc, exitCode, sdk, session, iceServers, connectedPeers, nodeFetch, host, turnFetch, stopped,
                   pending, discovery, lastNotif, ready>>

\* The outcome recorded for a turn whose async handler ended with a rejected promise.
HandlerRejected == [kind |-> "typeError", status |-> 0, body |-> "", readable |-> FALSE]

\* The payload is (or parses to) null or undefined: message.type throws a TypeError
\* outside any try block, the promise of the async dataReceived handler rejects
\* and nobody handles it.  Node then either ends the process with status 1
\* (--unhandled-rejections=throw, the default since Node 15) or only warns.
DataTypeError(peer, data, crash) ==
    /\ Dispatch(data) = "typeError"
    /\ last' = Turn("data", peer, data, NoReq, HandlerRejected, <<>>, <<>>)
    /\ IF crash
       THEN pc' = "exited" /\ exitCode' = 1
       ELSE UNCHANGED <<pc, exitCode>>
    /\ UNCHANGED <<sdk, session, iceServers, connectedPeers, nodeFetch, host, turnFetch, stopped,
                   pending, discovery, lastNotif, ready>>

\* type is ping: sendToClient(clientUUID, {type: 'pong'}).
DataPing(peer, data, throws) ==
    /\ Dispatch(data) = "ping"
    /\ last' = Turn("data", peer, data, NoReq, NoOutcome,
                    sendToClient(peer, PongMessage, throws), <<>>)
    /\ UNCHANGED <<pc, exitCode, sdk, session, iceServers, connectedPeers, nodeFetch, host, turnFetch, stopped,
                   pending, discovery, lastNotif, ready>>

\* Mutant: handleSignaling does not start a POST while another one is pending.
handleSignalingSerialized(peer, data, throws) ==
    /\ Dispatch(data) = "signaling"
    /\ pending = EmptyBag
    /\ LET m   == Destructure(ParseData(data).value)
           req == Negotiation(m, peer)
       IN IF nodeFetch
          THEN /\ pending' = pending (+) SetToBag({req})
               /\ last' = Turn("data", peer, data, req, NoOutcome, <<>>, <<PostRequest(m)>>)
          ELSE /\ last' = Turn("data", peer, data, req, NoOutcome,
                               sendToClient(peer, ErrorMessage(req, ImportErrorMessage), throws),
                               <<>>)
               /\ UNCHANGED pending
    /\ UNCHANGED <<pc, exitCode, sdk, session, iceServers, connectedPeers, nodeFetch, host, turnFetch, stopped,
                   discovery, lastNotif, ready>>

\* type is whip or whep: handleSignaling up to the await of fetch(url, ...).  When
\* import('node-fetch') rejects no POST is made and the catch block reports the error.
handleSignaling(peer, data, throws) ==
    /\ Dispatch(data) = "signaling"
    /\ LET m   == Destructure(ParseData(data).value)
           req == Negotiation(m, peer)
       IN IF nodeFetch
          THEN /\ BagCardinality(pending) < MaxPending
               /\ pending' = pending (+) SetToBag({req})
               /\ last' = Turn("data", peer, data, req, NoOutcome, <<>>, <<PostRequest(m)>>)
          ELSE /\ last' = Turn("data", peer, data, req, NoOutcome,
                               sendToClient(peer, ErrorMessage(req, ImportErrorMessage), throws),
                               <<>>)
               /\ UNCHANGED pending
    /\ UNCHANGED <<pc, exitCode, sdk, session, iceServers, connectedPeers, nodeFetch, host, turnFetch, stopped,
                   discovery, lastNotif, ready>>

handleMessage(peer, data) ==
    /\ Delivering
    /\ LET branch == Dispatch(data) IN
       CASE branch \in {"invalid", "unknown"} -> DataDropped(peer, data)
         [] branch = "typeError" -> \E crash \in BOOLEAN : DataTypeError(peer, data, crash)
         [] branch = "ping" -> \E throws \in SendOutcomes : DataPing(peer, data, throws)
         [] branch = "signaling" ->
               \E throws \in (IF nodeFetch THEN {FALSE} ELSE SendOutcomes) :
                  handleSignaling(peer, data, throws)

\* Mutant: handleSignaling without its catch block: a failure escapes as an
\* unhandled rejection and ends the process.
handleSignalingUncaught(req, outcome, throws) ==
    /\ pc # "exited"
    /\ BagIn(req, pending)
    /\ pending' = pending (-) SetToBag({req})
    /\ IF NegotiationFailed(outcome)
       THEN /\ last' = Turn("response", req.peer, NoData, req, outcome, <<>>, <<>>)
            /\ pc' = "exited"
            /\ exitCode' = 1
       ELSE /\ last' = Turn("response", req.peer, NoData, req, outcome,
                            sendToClient(req.peer, AnswerMessage(req, outcome.body), throws), <<>>)
            /\ UNCHANGED <<pc, exitCode>>
    /\ UNCHANGED <<sdk, session, iceServers, connectedPeers, nodeFetch, host, turnFetch, stopped,
                   discovery, lastNotif, ready>>

\* Mutant: the reply goes to the peer of whichever negotiation is pending for
\* another peer (the recipient kept in a field shared by all negotiations).
handleSignalingCrossed(req, outcome, throws) ==
    /\ pc # "exited"
    /\ BagIn(req, pending)
    /\ pending' = pending (-) SetToBag({req})
    /\ LET others == {r \in BagToSet(pending) : r.peer # req.peer}
           target == IF others = {} THEN req.peer ELSE (CHOOSE r \in others : TRUE).peer
       IN last' = Turn("response", req.peer, NoData, req, outcome,
                       sendToClient(target, SignalingReply(req, outcome), throws), <<>>)
    /\ UNCHANGED <<pc, exitCode, sdk, session, iceServers, connectedPeers, nodeFetch, host, turnFetch, stopped,
                   discovery, lastNotif, ready>>

\* The fetch of a pending negotiation settles: the rest of handleSignaling.
handleSignalingSettled(req, outcome, throws) ==
    /\ pc # "exited"
    /\ BagIn(req, pending)
    /\ pending' = pending (-) SetToBag({req})
    /\ last' = Turn("response", req.peer, NoData, req, outcome,
                    sendToClient(req.peer, SignalingReply(req, outcome), throws), <<>>)
    /\ UNCHANGED <<pc, exitCode, sdk, session, iceServers, connectedPeers, nodeFetch, host, turnFetch, stopped,
                   discovery, lastNotif, ready>>

\* start() has not returned or thrown yet.
StartInProgress == pc \in {"fetchTurn", "connect", "announce"}

\* The stop() history after one more call: if (this.sdk) this.sdk.disconnect().
AfterStopCall(disconnectThrows) ==
    [called |-> TRUE,
     disconnects |-> IF sdk # NullRef THEN stopped.disconnects + 1 ELSE stopped.disconnects,
     duringStart |-> \/ stopped.duringStart
                     \/ StartInProgress /\ ~(sdk # NullRef /\ disconnectThrows)]

(***************************************************************************)
(* SIGINT: bridge.stop(), then process.exit(0).  stop() calls              *)
(* sdk.disconnect() outside any try block: if it throws, the exception     *)
(* leaves the signal handler uncaught and node ends with status 1.         *)
(***************************************************************************)
Sigint(disconnectThrows) ==
    /\ pc # "exited"
    /\ pc' = "exited"
    /\ last' = Turn("sigint", "", NoData, NoReq, NoOutcome, <<>>, <<>>)
    /\ stopped' = AfterStopCall(disconnectThrows)
    /\ IF sdk # NullRef /\ disconnectThrows
       THEN /\ exitCode' = 1
            /\ UNCHANGED <<sdk, session>>
       ELSE /\ exitCode' = 0
            /\ sdk' = NullRef
            /\ session' = IF sdk # NullRef THEN "closed" ELSE session
    /\ UNCHANGED <<iceServers, connectedPeers, nodeFetch, host, turnFetch, pending, discovery,
                   lastNotif, ready>>

\* stop() called by the code that owns the bridge, which then carries on.  A
\* throwing sdk.disconnect() leaves stop() before this.sdk = null.
stop(disconnectThrows) ==
    /\ pc # "exited"
    /\ stopped.disconnects < MaxDisconnects
    /\ last' = Turn("stop", "", NoData, NoReq, NoOutcome, <<>>, <<>>)
    /\ stopped' = AfterStopCall(disconnectThrows)
    /\ IF sdk # NullRef /\ disconnectThrows
       THEN UNCHANGED <<sdk, session>>
       ELSE /\ sdk' = NullRef
            /\ session' = IF sdk # NullRef THEN "closed" ELSE session
    /\ UNCHANGED <<pc, exitCode, iceServers, connectedPeers, nodeFetch, host, turnFetch, pending,
                   discovery, lastNotif, ready>>

Next ==
    \/ \E outcome \in DiscoveryOutcomes : fetchTurnServers(outcome)
    \/ ConnectResolved
    \/ ConnectRejected
    \/ AnnounceResolved
    \/ AnnounceRejected
    \/ \E uuid \in Peers \cup {Undefined} : PeerConnected(uuid)
    \/ \E uuid \in Peers \cup {Undefined} : PeerDisconnected(uuid)
    \/ \E peer \in Peers, data \in Payloads : handleMessage(peer, data)
    \/ \E req \in BagToSet(pending), outcome \in UpstreamOutcomes, throws \in SendOutcomes :
          handleSignalingSettled(req, outcome, throws)
    \/ \E disconnectThrows \in BOOLEAN : Sigint(disconnectThrows)

Spec == Init /\ [][Next]_vars

(***************************************************************************)
(* Progress of startup.  The await in fetchTurnServers settles by itself   *)
(* when import('node-fetch') rejects, or when the fetch honours the        *)
(* option {timeout: 5000} (node-fetch 2 does, node-fetch 3 ignores it):    *)
(* the timer then rejects the fetch.  Nothing else bounds that await.      *)
(***************************************************************************)
DiscoverySettlesInTime ==
    /\ ~nodeFetch \/ turnFetch = "timed"
    /\ \E outcome \in DiscoveryOutcomes : fetchTurnServers(outcome)

SpecLive == Init /\ [][Next]_vars /\ WF_vars(DiscoverySettlesInTime)

(***************************************************************************)
(* The exported class driven by another caller than main(): start() is     *)
(* awaited by that caller and stop() may be called at any time, the        *)
(* process staying alive.                                                  *)
(***************************************************************************)
InitApi ==
    /\ pc = "fetchTurn"
    /\ exitCode = NotExited
    /\ sdk = NullRef
    /\ session = "none"
    /\ iceServers = IceNull
    /\ connectedPeers = <<>>
    /\ nodeFetch \in BOOLEAN
    /\ pending = EmptyBag
    /\ last = Turn("start", "", NoData, NoReq, NoOutcome, <<>>, <<>>)
    /\ discovery = [state |-> "pending", servers |-> <<>>, fetches |-> 0]
    /\ lastNotif = [p \in Peers |-> "none"]
    /\ ready = FALSE
    /\ host = "api"
    /\ turnFetch \in {"timed", "untimed"}
    /\ stopped = NeverStopped

NextApi ==
    \/ \E outcome \in DiscoveryOutcomes : fetchTurnServers(outcome)
    \/ ConnectResolved
    \/ ConnectRejected
    \/ AnnounceResolved
    \/ AnnounceRejected
    \/ \E uuid \in Peers \cup {Undefined} : PeerConnected(uuid)
    \/ \E uuid \in Peers \cup {Undefined} : PeerDisconnected(uuid)
    \/ \E peer \in Peers, data \in Payloads : handleMessage(peer, data)
    \/ \E req \in BagToSet(pending), outcome \in UpstreamOutcomes, throws \in SendOutcomes :
          handleSignalingSettled(req, outcome, throws)
    \/ \E disconnectThrows \in BOOLEAN : stop(disconnectThrows)

SpecApi == InitApi /\ [][NextApi]_vars

(***************************************************************************)
(* Vocabulary of the properties.                                           *)
(***************************************************************************)
\* The last turn handled a data message that took the given branch of handleMessage.
LastData(branch) == last.op = "data" /\ Dispatch(last.data) = branch

\* The last turn was the settling of a negotiation's POST.
LastResponse == last.op = "response"

\* The upstream call succeeded: a 2xx status whose body was read.
UpstreamSucceeded(o) == o.kind = "response" /\ o.status >= 200 /\ o.status <= 299 /\ o.readable

\* The upstream call failed: rejected, a status outside 2xx, or an unreadable body.
UpstreamFailed(o) ==
    \/ o.kind = "rejected"
    \/ o.kind = "response" /\ (o.status < 200 \/ o.status > 299)
    \/ o.kind = "response" /\ ~o.readable

\* The JSON member requestId of payload p carries the request's requestId
\* (a request without requestId yields a payload without that member).
CarriesRequestId(p, req) ==
    IF req.requestId = Undefined
    THEN "requestId" \notin DOMAIN p
    ELSE "requestId" \in DOMAIN p /\ p.requestId = req.requestId

\* The JSON array w is the credential list ice, entry by entry and in order.
SameCredentials(w, ice) ==
    /\ "list" \in DOMAIN w /\ "list" \in DOMAIN ice
    /\ Len(w.list) = Len(ice.list)
    /\ \A i \in 1..Len(ice.list) : \A f \in {"urls", "username", "credential"} :
          IF f \in DOMAIN ice.list[i] /\ ice.list[i][f] # Undefined
          THEN f \in DOMAIN w.list[i] /\ w.list[i][f] = ice.list[i][f]
          ELSE f \notin DOMAIN w.list[i]

\* The last turn made exactly one sendData call, an error for its request.
OnlyAnErrorSent ==
    /\ Len(last.sent) = 1
    /\ last.sent[1].target = last.req.peer
    /\ LET p == last.sent[1].payload IN
          /\ DOMAIN p \subseteq {"type", "requestId", "error"}
          /\ p.type = "error"
          /\ CarriesRequestId(p, last.req)
          /\ "error" \in DOMAIN p /\ p.error \notin {Undefined, ""}

FetchedTwo == [list |-> <<[urls |-> "turn:a.example:3478", username |-> "user-a", credential |-> "pw-a"],
                          [urls |-> "stun:b.example:3478", username |-> Undefined, credential |-> Undefined]>>]

(***************************************************************************)
(* C1                                                                      *)
(***************************************************************************)
\* C1: a whip/whep message makes a pending negotiation that keeps the sender, the
\* type and the requestId of the message; when its POST returns a 2xx status and
\* the body is read, exactly one sendData call is made, to the sender, with type
\* <type>-answer, the message's requestId, sdp = the response body and
\* iceServers = the cached credential list.
C1_AnswerOnSuccess ==
    /\ (LastData("signaling") /\ nodeFetch) =>
          LET v == IF last.data.isString THEN JSONParse(last.data.text).value ELSE last.data.value
          IN /\ last.req.peer = last.peer
             /\ last.req.type = v.fields.type
             /\ last.req.requestId =
                   (IF "requestId" \in DOMAIN v.fields THEN v.fields.requestId ELSE Undefined)
             /\ BagIn(last.req, pending)
    /\ (LastResponse /\ UpstreamSucceeded(last.outcome)) =>
          /\ Len(last.sent) = 1
          /\ last.sent[1].target = last.req.peer
          /\ LET p == last.sent[1].payload IN
                /\ DOMAIN p \subseteq {"type", "requestId", "sdp", "iceServers"}
                /\ p.type = (IF last.req.type = "whip" THEN "whip-answer" ELSE "whep-answer")
                /\ CarriesRequestId(p, last.req)
                /\ "sdp" \in DOMAIN p /\ p.sdp = last.outcome.body
                /\ "iceServers" \in DOMAIN p /\ SameCredentials(p.iceServers, iceServers)

C1_Witness ==
    /\ LastResponse /\ UpstreamSucceeded(last.outcome)
    /\ last.req = [peer |-> "peer-B", type |-> "whep", requestId |-> "r2"]
    /\ iceServers = FetchedTwo
    /\ Len(last.sent) = 1 /\ ~last.sent[1].threw
    /\ last.sent[1].payload.type = "whep-answer"

(***************************************************************************)
(* C2                                                                      *)
(***************************************************************************)
\* C2: when the upstream call of a whip/whep request fails (the import of the
\* HTTP client or the fetch rejects, the status is not 2xx, or the body cannot be
\* read), exactly one sendData call is made, to the sender, of type error with
\* the request's requestId and a non-empty error string, and no answer is sent.
C2_ErrorOnFailure ==
    /\ (LastResponse /\ UpstreamFailed(last.outcome)) => OnlyAnErrorSent
    /\ (LastData("signaling") /\ ~nodeFetch) => (OnlyAnErrorSent /\ last.posts = <<>>)
    /\ LastResponse => (UpstreamFailed(last.outcome) \/ UpstreamSucceeded(last.outcome))

C2_Witness ==
    /\ LastResponse
    /\ last.outcome.kind = "response" /\ last.outcome.status = 404
    /\ last.req.requestId = "r2"
    /\ Len(last.sent) = 1
    /\ last.sent[1].payload = [type |-> "error", requestId |-> "r2",
                               error |-> "MediaMTX 404: no such stream"]

(***************************************************************************)
(* C3                                                                      *)
(***************************************************************************)
C3_PongSent ==
    LastData("ping") =>
        /\ Len(last.sent) = 1
        /\ last.sent[1].target = last.peer
        /\ last.sent[1].payload = [type |-> "pong"]
        /\ last.posts = <<>>

\* C3: a ping from peer P makes exactly one sendData call, {type: "pong"} addressed
\* to P, makes no POST, and leaves the registry, the credential list, the pending
\* negotiations, the session and the process as they were.
C3_PingPong ==
    /\ []C3_PongSent
    /\ [][(last'.op = "data" /\ Dispatch(last'.data) = "ping") =>
             UNCHANGED <<connectedPeers, iceServers, pending, pc, exitCode, sdk, session>>]_vars

C3_Witness ==
    /\ LastData("ping")
    /\ last.peer = "peer-B"
    /\ Len(connectedPeers) = 2
    /\ pending # EmptyBag
    /\ Len(last.sent) = 1 /\ last.sent[1].target = "peer-B"

(***************************************************************************)
(* C4                                                                      *)
(***************************************************************************)
\* Texts of the alphabet that are not JSON.
MalformedTexts == {TextTruncated}

LastMalformed == last.op = "data" /\ last.data.isString /\ last.data.text \in MalformedTexts

\* C4: a string payload that is not JSON is dropped: no sendData call, no POST,
\* and the registry and the pending negotiations stay as they were.
C4_MalformedDropped ==
    /\ [](LastMalformed => (last.sent = <<>> /\ last.posts = <<>>))
    /\ [][LastMalformed' => UNCHANGED <<connectedPeers, pending, pc, exitCode>>]_vars

C4_Witness ==
    /\ LastMalformed
    /\ Len(connectedPeers) > 0
    /\ pending # EmptyBag
    /\ last.sent = <<>>

(***************************************************************************)
(* C5                                                                      *)
(***************************************************************************)
\* The last turn ended a negotiation in handleSignaling's catch block.
FailedNegotiationTurn ==
    \/ LastResponse /\ UpstreamFailed(last.outcome)
    \/ LastData("signaling") /\ ~nodeFetch

C5_StillServing ==
    FailedNegotiationTurn =>
        /\ exitCode = NotExited
        /\ pc \in {"announce", "ready"}
        /\ sdk = SdkRef
        /\ session \in {"connected", "announced"}
        /\ \A p \in Peers :
              /\ ENABLED handleMessage(p, StringData(TextPing))
              /\ (nodeFetch /\ BagCardinality(pending) < MaxPending) =>
                    /\ ENABLED handleMessage(p, StructuredData(JSObject(WhipBare)))
                    /\ ENABLED handleMessage(p, StringData(TextWhep))

\* C5: a failed negotiation neither ends the process nor closes or drops the
\* session: the turn that reports the failure leaves the process running, the
\* sdk reference and the session as they were, and in the state it leaves the
\* handler accepts a ping, a whip and a whep message from every peer.
C5_FailureNotFatal ==
    /\ []C5_StillServing
    /\ [][FailedNegotiationTurn' => UNCHANGED <<pc, exitCode, sdk, session>>]_vars

C5_Witness ==
    /\ LastResponse /\ UpstreamFailed(last.outcome)
    /\ pc = "ready" /\ session = "announced" /\ exitCode = NotExited
    /\ pending # EmptyBag

(***************************************************************************)
(* C6                                                                      *)
(***************************************************************************)
OnlyDefaultStun == [list |-> <<[urls |-> "stun:stun.l.google.com:19302"]>>]

\* C6: when credential discovery fails, start() goes on to create the session and
\* call connect (which can still resolve, and announce after it), the cached list
\* is the single default entry, and every answer sent afterwards carries exactly
\* that entry as iceServers.
C6_DiscoveryFailureTolerated ==
    discovery.state = "failed" =>
        /\ iceServers = OnlyDefaultStun
        /\ last.op = "fetchTurnServers" =>
              /\ pc = "connect" /\ exitCode = NotExited
              /\ sdk = SdkRef /\ session = "created"
              /\ ENABLED ConnectResolved
        /\ pc = "announce" => ENABLED AnnounceResolved
        /\ (LastResponse /\ UpstreamSucceeded(last.outcome)) =>
              /\ Len(last.sent) = 1
              /\ last.sent[1].payload.iceServers = OnlyDefaultStun

C6_Witness ==
    /\ discovery.state = "failed"
    /\ nodeFetch
    /\ pc = "ready" /\ session = "announced"
    /\ LastResponse /\ UpstreamSucceeded(last.outcome)
    /\ last.sent[1].payload.iceServers = OnlyDefaultStun

(***************************************************************************)
(* C7                                                                      *)
(***************************************************************************)
\* The cached list has one entry per server of the response, in order, each with
\* the server's urls, username and credential.
CompleteFetchedList ==
    /\ iceServers # IceNull
    /\ Len(iceServers.list) = Len(discovery.servers)
    /\ \A i \in 1..Len(discovery.servers) :
          /\ DOMAIN iceServers.list[i] = {"urls", "username", "credential"}
          /\ \A f \in {"urls", "username", "credential"} :
                iceServers.list[i][f] =
                    (IF f \in DOMAIN discovery.servers[i] THEN discovery.servers[i][f] ELSE Undefined)

C7_FetchedOrFallback ==
    CASE discovery.state = "pending" -> iceServers = IceNull
      [] discovery.state = "fetched" -> CompleteFetchedList
      [] discovery.state = "failed"  -> iceServers = OnlyDefaultStun

\* C7: once discovery has finished the credential list is the complete mapped
\* response or the single fallback entry (and null before), and no later step
\* changes it.
C7_CredentialListStable ==
    /\ []C7_FetchedOrFallback
    /\ [][discovery.state # "pending" => iceServers' = iceServers]_vars

C7_Witness ==
    /\ discovery.state = "fetched" /\ Len(discovery.servers) = 2
    /\ iceServers = FetchedTwo
    /\ LastResponse
    /\ Len(connectedPeers) = 1

(***************************************************************************)
(* C8                                                                      *)
(***************************************************************************)
Occurrences(registry, uuid) == Cardinality({i \in 1..Len(registry) : registry[i] = uuid})

\* C8: a peer identifier has exactly one entry in the registry when its most
\* recent notification was a connect and none otherwise; a notification without
\* identifier adds nothing.
C8_RegistryTracksNotifications ==
    /\ \A p \in Peers :
          Occurrences(connectedPeers, p) = (IF lastNotif[p] = "connect" THEN 1 ELSE 0)
    /\ \A i \in 1..Len(connectedPeers) : connectedPeers[i] \in Peers

C8_Witness ==
    /\ lastNotif["peer-A"] = "disconnect"
    /\ lastNotif["peer-B"] = "connect"
    /\ connectedPeers = <<"peer-B">>
    /\ last.op = "peerConnected" /\ last.peer = Undefined

(***************************************************************************)
(* C9                                                                      *)
(***************************************************************************)
\* The last turn handled a message that was parsed (or came structured) and whose
\* type is none of whip, whep and ping, a missing type included.
LastUnrecognized ==
    /\ last.op = "data"
    /\ LET parsed == IF last.data.isString THEN JSONParse(last.data.text)
                     ELSE [ok |-> TRUE, value |-> last.data.value]
       IN /\ parsed.ok
          /\ \/ parsed.value.kind # "object"
             \/ "type" \notin DOMAIN parsed.value.fields
             \/ parsed.value.fields.type \notin {"whip", "whep", "ping"}

\* C9: a parsed message whose type is none of whip, whep and ping makes no
\* sendData call and no POST.
C9_UnknownIgnored == LastUnrecognized => (last.sent = <<>> /\ last.posts = <<>>)

C9_Witness ==
    /\ LastUnrecognized
    /\ last.data = StructuredData(JSObject(NoTypeMsg))
    /\ pending # EmptyBag
    /\ last.sent = <<>>

(***************************************************************************)
(* C10                                                                     *)
(***************************************************************************)
\* C10: when connect() or announce() rejects, start() does not report the bridge
\* ready and the process has exited with status 1.
C10_SessionFailureFatal ==
    last.op \in {"connectFailed", "announceFailed"} =>
        /\ pc = "exited"
        /\ exitCode = 1
        /\ ~ready

C10_Witness ==
    /\ last.op = "announceFailed"
    /\ session = "connected"
    /\ exitCode = 1 /\ ~ready

\* C11: a termination signal always ends in the exit step with the graceful
\* status 0: whether sdk.disconnect() returns or throws, and whether or not
\* the session had been created when the signal came.
C11_ShutdownReachesExit ==
    last.op = "sigint" => (pc = "exited" /\ exitCode = 0)

\* The part of C11 the code does keep: a signal that finds no session yet, or
\* whose disconnect returns, exits with status 0 and leaves the session closed.
C11_CleanCloseExitsZero ==
    (last.op = "sigint" /\ (session \in {"none", "closed"})) => exitCode = 0

(***************************************************************************)
(* C12                                                                     *)
(***************************************************************************)
\* The discovery fetch was made once and is over.
DiscoveryFetchedOnce == discovery.state # "pending" /\ discovery.fetches = 1

\* C12 as stated: every whip/whep message makes exactly one POST whatever its
\* outcome, no other turn makes a POST, a finished discovery has made exactly
\* one fetch, and no turn calls sendData more than once.
C12_ExactlyOnePostAndFetch ==
    /\ LastData("signaling") => Len(last.posts) = 1
    /\ ~LastData("signaling") => last.posts = <<>>
    /\ discovery.state # "pending" => DiscoveryFetchedOnce
    /\ Len(last.sent) <= 1

\* The number of fetch calls one request can lead to in this installation.
FetchCallsPerRequest == IF nodeFetch THEN 1 ELSE 0

\* C12 (amended): nothing is retried.  Every whip/whep message makes at most one
\* POST, exactly one when import('node-fetch') resolves and none when it rejects;
\* the turn that settles a negotiation makes no further POST and takes the
\* negotiation out of the pending ones whatever the outcome; discovery fetches
\* at most once (once when the import resolves) and never runs again; a turn
\* calls sendData at most once, for its own event, also when the call threw.
C12_NoRetry ==
    /\ [](/\ LastData("signaling") => Len(last.posts) = FetchCallsPerRequest
          /\ ~LastData("signaling") => last.posts = <<>>
          /\ discovery.fetches = (IF discovery.state = "pending" THEN 0 ELSE FetchCallsPerRequest)
          /\ Len(last.sent) <= 1
          /\ last.op \notin {"data", "response"} => last.sent = <<>>
          /\ (last.op = "data" /\ last.sent # <<>>) => last.sent[1].target = last.peer
          /\ (last.op = "response" /\ last.sent # <<>>) => last.sent[1].target = last.req.peer)
    /\ [][discovery.state # "pending" => discovery' = discovery]_vars
    /\ [][last'.op = "response" =>
             /\ BagIn(last'.req, pending)
             /\ pending' = pending (-) SetToBag({last'.req})]_vars

\* A POST failed, the one sendData call for its error threw, and nothing is
\* left pending; discovery had failed too, after its one fetch.
C12_Witness ==
    /\ LastResponse
    /\ UpstreamFailed(last.outcome)
    /\ Len(last.sent) = 1
    /\ last.sent[1].threw
    /\ pending = EmptyBag
    /\ discovery.state = "failed"
    /\ discovery.fetches = 1

(***************************************************************************)
(* C13                                                                     *)
(***************************************************************************)
\* Negotiations are awaiting their upstream response while events are delivered.
AwaitingUpstream == Delivering /\ pending # EmptyBag

\* C13: while negotiations await their upstream response, a ping and (below the
\* bound of the model) another whip/whep of any peer can be handled at once, and
\* any of the pending responses can be handled before the others; handling a
\* message then keeps every pending negotiation pending, a ping is answered
\* in its own turn, and a response turn replies to its own negotiation only
\* and leaves the other ones pending.
C13_PendingCallDoesNotBlock ==
    /\ [](AwaitingUpstream =>
            /\ \A p \in Peers : ENABLED handleMessage(p, StringData(TextPing))
            /\ BagCardinality(pending) < MaxPending =>
                  \A p \in Peers : ENABLED handleMessage(p, StringData(TextWhep))
            /\ \A req \in BagToSet(pending), o \in UpstreamOutcomes :
                  ENABLED handleSignalingSettled(req, o, FALSE))
    /\ [][(AwaitingUpstream /\ last'.op = "data") =>
             /\ pending \sqsubseteq pending'
             /\ LastData("ping")' =>
                   /\ Len(last'.sent) = 1
                   /\ last'.sent[1].target = last'.peer
                   /\ last'.sent[1].payload = [type |-> "pong"]
             /\ (LastData("signaling")' /\ nodeFetch) =>
                   /\ Len(last'.posts) = 1
                   /\ pending' = pending (+) SetToBag({last'.req})]_vars
    /\ [][last'.op = "response" =>
             /\ pending' = pending (-) SetToBag({last'.req})
             /\ \A i \in 1..Len(last'.sent) : last'.sent[i].target = last'.req.peer]_vars

\* A ping of peer-B was answered while two negotiations, one of peer-A and
\* one of peer-B, were awaiting their upstream response.
C13_Witness ==
    /\ LastData("ping")
    /\ last.peer = "peer-B"
    /\ Len(last.sent) = 1
    /\ BagCardinality(pending) = 2
    /\ \E r1, r2 \in BagToSet(pending) : r1.peer = "peer-A" /\ r2.peer = "peer-B"

(***************************************************************************)
(* C14                                                                     *)
(***************************************************************************)
\* Startup is past credential discovery: the list is the fetched one or the
\* fallback and start() has created the session object.
DiscoveryOver == discovery.state # "pending" /\ iceServers # IceNull /\ session # "none"

\* C14: in every execution credential discovery eventually completes or fails
\* into the fallback and startup goes on to open the session (unless the
\* process has been told to exit first).
C14_DiscoveryEventuallyOver == <>(DiscoveryOver \/ pc = "exited")

\* The part of C14 the code does keep: once discovery is over it stays over.
C14_DiscoveryOverForGood == [][DiscoveryOver => DiscoveryOver']_vars

(***************************************************************************)
(* C15                                                                     *)
(***************************************************************************)
\* The whip/whep request the last data turn handled, read off the message.
LastRequestOfMessage ==
    LET v == IF last.data.isString THEN JSONParse(last.data.text).value ELSE last.data.value
    IN [peer |-> last.peer,
        type |-> v.fields.type,
        requestId |-> IF "requestId" \in DOMAIN v.fields THEN v.fields.requestId ELSE Undefined]

\* Every sendData call of the last turn is addressed to the peer of the turn's
\* request and carries the requestId of that request.
RepliesToOwnRequest ==
    \A i \in 1..Len(last.sent) :
       /\ last.sent[i].target = last.req.peer
       /\ CarriesRequestId(last.sent[i].payload, last.req)

\* C15 as stated: the request of a turn is the one its message made, a response
\* turn handles a negotiation that was pending, and every reply, answer or
\* error, goes to the request's peer with the request's requestId and type.
C15_ReplyCarriesIdAndType ==
    /\ LastData("signaling") => last.req = LastRequestOfMessage
    /\ (LastData("signaling") \/ LastResponse) =>
          /\ RepliesToOwnRequest
          /\ \A i \in 1..Len(last.sent) :
                last.sent[i].payload.type = last.req.type \o "-answer"

\* C15 (amended): under any interleaving, every answer or error is addressed to
\* the peer that sent the request and carries that request's requestId; an
\* answer also carries the request's type (<type>-answer), an error has the
\* type "error" and does not name the request's type.  The request replied to
\* is the one its own message made and was pending until its response came.
C15_NoCrossTalk ==
    /\ [](/\ LastData("signaling") => last.req = LastRequestOfMessage
          /\ (LastData("signaling") \/ LastResponse) =>
                /\ RepliesToOwnRequest
                /\ \A i \in 1..Len(last.sent) :
                      last.sent[i].payload.type \in {last.req.type \o "-answer", "error"}
          /\ (LastResponse /\ UpstreamSucceeded(last.outcome)) =>
                \A i \in 1..Len(last.sent) :
                   last.sent[i].payload.type = last.req.type \o "-answer")
    /\ [][(LastData("signaling")' /\ nodeFetch) => pending' = pending (+) SetToBag({last'.req})]_vars
    /\ [][LastResponse' => BagIn(last'.req, pending)]_vars

\* An answer went to peer-B for its whep request r2 while the whip request of
\* peer-A, made without requestId, was still pending.
C15_Witness ==
    /\ LastResponse
    /\ UpstreamSucceeded(last.outcome)
    /\ last.req = [peer |-> "peer-B", type |-> "whep", requestId |-> "r2"]
    /\ Len(last.sent) = 1
    /\ last.sent[1].target = "peer-B"
    /\ BagIn([peer |-> "peer-A", type |-> "whip", requestId |-> Undefined], pending)

(***************************************************************************)
(* C16                                                                     *)
(***************************************************************************)
\* The members of the whip/whep message the last data turn handled.
LastMessageFields ==
    (IF last.data.isString THEN JSONParse(last.data.text).value ELSE last.data.value).fields

\* The last turn issued the POST of a whip/whep message.
LastPosted == LastData("signaling") /\ last.posts # <<>>

\* The POST of the last turn has the method, the content type and the body of
\* the claim and goes to <base>/<path>/<whip or whep, as the message's type>.
PostedTo(path) ==
    /\ Len(last.posts) = 1
    /\ last.posts[1].method = "POST"
    /\ last.posts[1].contentType = "application/sdp"
    /\ last.posts[1].body = LastMessageFields.sdp
    /\ last.posts[1].url =
          "http://localhost:8889/" \o path \o
             (IF LastMessageFields.type = "whip" THEN "/whip" ELSE "/whep")

\* C16 as stated: the path is the streamPath of the message, or "live" when
\* the message has no streamPath.
C16_PathOrLiveWhenAbsent ==
    LastPosted =>
       PostedTo(IF "streamPath" \in DOMAIN LastMessageFields
                THEN LastMessageFields.streamPath ELSE "live")

\* C16 (amended): the path is the streamPath of the message, or "live" when
\* the message has no streamPath or an empty one.
C16_PathOrLiveWhenAbsentOrEmpty ==
    LastPosted =>
       PostedTo(IF "streamPath" \in DOMAIN LastMessageFields /\ LastMessageFields.streamPath # ""
                THEN LastMessageFields.streamPath ELSE "live")

\* A whep message whose streamPath is the empty string was posted to live/whep.
C16_Witness ==
    /\ LastPosted
    /\ "streamPath" \in DOMAIN LastMessageFields
    /\ LastMessageFields.streamPath = ""
    /\ last.posts[1].url = "http://localhost:8889/live/whep"
    /\ last.posts[1].body = "offer-2"

\* A whip message without streamPath was posted to live/whip, with its sdp as body.
C16_WitnessAbsentPath ==
    /\ LastPosted
    /\ "streamPath" \notin DOMAIN LastMessageFields
    /\ last.posts[1].url = "http://localhost:8889/live/whip"
    /\ last.posts[1].body = "offer-1"

\* A whep message with the streamPath "cam" was posted to cam/whep.
C16_WitnessNamedPath ==
    /\ LastPosted
    /\ last.posts[1].url = "http://localhost:8889/cam/whep"

(***************************************************************************)
(* C17                                                                     *)
(***************************************************************************)
\* What the last data turn sent and posted is what its message alone calls
\* for, the sender being in the registry or not: a pong for a ping; one POST
\* for a whip/whep (or, when the HTTP client cannot be imported, one error);
\* nothing for any other message.
EffectsOfMessageOnly ==
    /\ LastData("ping") =>
          /\ last.posts = <<>>
          /\ Len(last.sent) = 1
          /\ last.sent[1].target = last.peer
          /\ last.sent[1].payload = [type |-> "pong"]
    /\ (LastData("signaling") /\ nodeFetch) => (Len(last.posts) = 1 /\ last.sent = <<>>)
    /\ (LastData("signaling") /\ ~nodeFetch) =>
          /\ last.posts = <<>>
          /\ Len(last.sent) = 1
          /\ last.sent[1].target = last.peer
          /\ last.sent[1].payload.type = "error"
    /\ (last.op = "data" /\ ~LastData("ping") /\ ~LastData("signaling")) =>
          (last.sent = <<>> /\ last.posts = <<>>)

\* C17: a turn that handles a data message, or the response of a negotiation,
\* leaves the registry as it was; every message of every peer, registered or
\* not, is handled (whip/whep below the bound of the model); what the turn
\* sends and posts depends on the message only, and the reply of a
\* negotiation is sent whether or not its peer is (still) in the registry.
C17_RegistryObservational ==
    /\ [][last'.op \in {"data", "response"} => connectedPeers' = connectedPeers]_vars
    /\ [](/\ last.op = "data" => EffectsOfMessageOnly
          /\ LastResponse =>
                (Len(last.sent) = 1 /\ last.sent[1].target = last.req.peer)
          /\ (Delivering /\ BagCardinality(pending) < MaxPending) =>
                \A p \in Peers, d \in Payloads : ENABLED handleMessage(p, d))

\* A ping of peer-B, which is not in the registry while peer-A is, was answered.
C17_Witness ==
    /\ LastData("ping")
    /\ last.peer = "peer-B"
    /\ "peer-B" \notin Entries(connectedPeers)
    /\ "peer-A" \in Entries(connectedPeers)
    /\ Len(last.sent) = 1

\* The same ping answered with peer-B in the registry.
C17_WitnessRegistered ==
    /\ LastData("ping")
    /\ last.peer = "peer-B"
    /\ "peer-B" \in Entries(connectedPeers)
    /\ Len(last.sent) = 1

(***************************************************************************)
(* C18 (the exported class, SpecApi)                                       *)
(***************************************************************************)
\* C18: once stop() has been called no turn calls sendData any more: neither
\* the response of a negotiation that was in flight nor a ping handled
\* afterwards produces a message.
C18_SilentAfterStop == stopped.called => last.sent = <<>>

\* What the code does keep of C18: while this.sdk is null, as a stop() whose
\* disconnect returned leaves it until start() creates an SDK, nothing is sent.
C18_SilentWithoutSdk == sdk = NullRef => last.sent = <<>>

\* The cases C18 names, reached with this.sdk null: the response of a
\* negotiation that was in flight, and a ping, handled after stop().
C18_ReachedAfterStop ==
    /\ stopped.called
    /\ sdk = NullRef
    /\ LastResponse \/ LastData("ping")

(***************************************************************************)
(* C19                                                                     *)
(***************************************************************************)
\* C19: whatever the payload, the turn that handles a data message ends with
\* handleMessage completed: the promise of the dataReceived handler is not
\* rejected and the process is not ended by it.
C19_HandlerNeverRejects ==
    last.op = "data" => (last.outcome # HandlerRejected /\ pc # "exited")

\* What the code does keep of C19: a payload that is, or parses to, an object
\* or a number, and a string that does not parse, never reject the handler.
C19_ObjectsNeverReject ==
    (/\ last.op = "data"
     /\ last.data \notin {StringData(TextNull), StructuredData(JSUndefined)}) =>
       (last.outcome # HandlerRejected /\ pc # "exited")

(***************************************************************************)
(* C20 (the exported class, SpecApi)                                       *)
(***************************************************************************)
\* The bridge holds a signaling session that has not been closed.
HoldsOpenSession == sdk # NullRef /\ session \in {"created", "connected", "announced"}

\* C20: once a call of stop() has returned while start() was in progress, the
\* bridge never holds an open session again, start() does not report the
\* bridge as ready, and sdk.disconnect() is not called a second time.
C20_StopEffectiveDuringStart ==
    stopped.duringStart => (~HoldsOpenSession /\ ~ready /\ stopped.disconnects <= 1)

\* What the code does keep of C20: a stop() that returns while connect() is
\* pending makes start() fail instead of reporting the bridge as ready.
C20_StopDuringConnect ==
    [][(pc = "connect" /\ sdk = NullRef) =>
          (pc' \in {"connect", "startRejected", "exited"} /\ ~ready' /\ ~HoldsOpenSession')]_vars


=============================================================================
